---- MODULE Spec2Model ----
(***************************************************************************)
(* A model of the retrieval engine of Vedu36/Rag_Assignment                *)
(* (src/rag_engine.py, class RAGEngine) and of how the HTTP layer          *)
(* (src/fastapi_app.py) drives it.                                         *)
(*                                                                         *)
(* Conventions.                                                            *)
(*  - A Python str is a sequence of one-character strings; " " stands for  *)
(*    every whitespace character.                                          *)
(*  - A Python list is a sequence; Python positions are 0-based, so the    *)
(*    Python position p is the sequence position p + 1.                    *)
(*  - A document text, and a chunk text once it is stored, is held in the   *)
(*    state by name: the document texts are named in DocTexts, and the     *)
(*    chunk named [doc |-> t, part |-> j] is the j-th chunk chunk_text     *)
(*    makes of t.  text_of(t) and chunk_chars(c) are the strings.       *)
(*  - An embedding is one integer coordinate.  Squared L2 distances and    *)
(*    the similarity threshold are counted in halves, so that the default  *)
(*    threshold 1.5 is the integer 3.                                      *)
(***************************************************************************)
EXTENDS Integers, Sequences, FiniteSets, TLC

VARIABLES
    index,          \* self.index: the vectors held by the FAISS index, in insertion order
    chunks,         \* self.chunks: the chunk records
    disk_index,     \* vector_store/faiss.index: [exists, data]
    disk_chunks,    \* vector_store/chunks.json: [exists, data]
    all_succeeded,  \* history: no engine call has raised so far
    faults,         \* history: the writes of save_index that have failed so far
    issued,         \* history: the chunk_ids assigned so far
    reissued,       \* history: some chunk_id has been assigned a second time
    last,           \* the most recent call, its outcome and the collaborators it used
    http            \* the requests in flight and the handlers the event loop has begun

vars == <<index, chunks, disk_index, disk_chunks, all_succeeded, faults, issued, reissued, last,
          http>>

(***************************************************************************)
(* Bounds of the model.                                                    *)
(***************************************************************************)
MaxTextLen == 5      \* characters of a text handed to chunk_text directly
MaxChunkSize == 3    \* largest chunk_size handed to chunk_text directly
MaxChunks == 2       \* chunk records the store may hold
MaxBatch == 2        \* documents in one add_documents call
MaxTopK == 3         \* largest top_k handed to retrieve_relevant_chunks directly
EmbedRange == 3      \* distinct coordinates the embedding model produces
MaxFaults == 1       \* writes of save_index that may fail in one behaviour
MaxRequests == 3     \* HTTP requests in flight at one time

Min(a, b) == IF a < b THEN a ELSE b

(***************************************************************************)
(* Python built-ins used by the engine.                                    *)
(***************************************************************************)
Chars == {" ", "a", "b"}

\* The first position >= i of text that holds no whitespace (Len(text) + 1 if none).
SkipSpaces(text, i) ==
    CHOOSE j \in i..(Len(text) + 1) :
        /\ (j = Len(text) + 1 \/ text[j] # " ")
        /\ \A k \in i..(j - 1) : text[k] = " "

\* The last position of the word that starts at position i of text.
WordEnd(text, i) ==
    CHOOSE j \in i..Len(text) :
        /\ (j = Len(text) \/ text[j + 1] = " ")
        /\ \A k \in i..j : text[k] # " "

\* The first position in lo..hi of text that holds whitespace (hi + 1 if none).
NextSpace(text, lo, hi) ==
    CHOOSE j \in lo..(hi + 1) :
        /\ (j = hi + 1 \/ text[j] = " ")
        /\ \A k \in lo..(j - 1) : text[k] # " "

\* The words of text[lo..hi], where neither text[lo - 1] nor text[hi + 1] is part of
\* a word.  The range is halved at a whitespace position, which keeps the
\* evaluation shallow on long texts; the value is that of a left-to-right scan.
RECURSIVE split_range(_, _, _)
split_range(text, lo, hi) ==
    LET s == SkipSpaces(text, lo)
    IN  IF s > hi THEN <<>>
        ELSE LET e == WordEnd(text, s)
                 m == NextSpace(text, Min(hi, (s + hi) \div 2), hi)
             IN  IF e >= hi THEN <<SubSeq(text, s, e)>>
                 ELSE IF m > hi THEN <<SubSeq(text, s, e)>> \o split_range(text, e + 1, hi)
                 ELSE split_range(text, s, m - 1) \o split_range(text, m + 1, hi)

\* str.split(): the maximal runs of non-whitespace characters, in order.
split(text) == split_range(text, 1, Len(text))

\* sep.join(words); the list is halved to keep the evaluation shallow.
RECURSIVE join(_, _)
join(sep, words) ==
    IF Len(words) = 0 THEN <<>>
    ELSE IF Len(words) = 1 THEN words[1]
    ELSE LET h == Len(words) \div 2
         IN  join(sep, SubSeq(words, 1, h)) \o sep \o join(sep, SubSeq(words, h + 1, Len(words)))

\* str.strip(): leading and trailing whitespace removed.
strip(s) ==
    LET first == SkipSpaces(s, 1)
    IN  IF first > Len(s) THEN <<>>
        ELSE LET lastpos == CHOOSE j \in first..Len(s) :
                                /\ s[j] # " "
                                /\ \A k \in (j + 1)..Len(s) : s[k] = " "
             IN  SubSeq(s, first, lastpos)

\* range(start, stop, step) raises ValueError when step is zero.
range_raises(step) == step = 0

\* range(start, stop, step) for step # 0, as the sequence of its values.
range(start, stop, step) ==
    LET n == IF step > 0
             THEN (IF stop > start THEN ((stop - start - 1) \div step) + 1 ELSE 0)
             ELSE (IF start > stop THEN ((start - stop - 1) \div (0 - step)) + 1 ELSE 0)
    IN  [j \in 1..n |-> start + (j - 1) * step]

\* words[lo:hi] for 0 <= lo and lo <= hi
slice(words, lo, hi) == SubSeq(words, lo + 1, Min(hi, Len(words)))

(***************************************************************************)
(* RAGEngine.chunk_text                                                    *)
(***************************************************************************)
chunk_text_raises(text, chunk_size, overlap) == range_raises(chunk_size - overlap)

chunk_text(text, chunk_size, overlap) ==
    LET words == split(text)
        starts == range(0, Len(words), chunk_size - overlap)
        joined == [j \in 1..Len(starts) |->
                      join(<<" ">>, slice(words, starts[j], starts[j] + chunk_size))]
        kept == SelectSeq(joined, LAMBDA c : strip(c) # <<>>)
    IN  [j \in 1..Len(kept) |-> strip(kept[j])]

(***************************************************************************)
(* Program constants.                                                      *)
(***************************************************************************)
DefaultChunkSize == 500
DefaultOverlap == 50
DefaultTopK == 5
\* similarity_threshold: float = 1.5, counted in halves
DefaultThreshold == 3
SnippetLen == 200

Refusal == "I don't have enough information in the uploaded documents to answer this question."
ErrorAnswer == "Error generating answer: <str(e)>"
CompletionAnswer == "<chat_completion.choices[0].message.content>"
Ellipsis == <<".", ".", ".">>

(***************************************************************************)
(* The collaborators: the embedding model and the FAISS flat L2 index.     *)
(***************************************************************************)
\* SentenceTransformer.encode of one text: a fixed function of the text.
encode(text) == Len(text) % EmbedRange

\* Squared L2 distance, in halves.
L2sqr(a, b) == 2 * (a - b) * (a - b)

\* The distance FAISS reports for a padded entry (the largest float32); it is
\* above every distance between two embeddings.
FLT_MAX == L2sqr(0, EmbedRange) + 1

\* float('inf') as a threshold.
Inf == FLT_MAX + 1

\* IndexFlatL2.add(x) unpacks x.shape into (n, d); encode([]) gives an array of
\* shape (0,), on which the unpacking raises ValueError.
index_add_raises(embeddings) == Len(embeddings) = 0

\* IndexFlatL2.search(q, k): every answer the index may give.  The k nearest
\* vectors by ascending distance, as (dist, idx) with idx the 0-based insertion
\* position; the order among equal distances is the index's own; when fewer
\* than k vectors are stored the answer is padded with (FLT_MAX, -1).
search(idx, q, k) ==
    LET n == Len(idx)
        m == Min(n, k)
        d(i) == L2sqr(q, idx[i])
        orders == {o \in [1..m -> 1..n] :
                     /\ \A i, j \in 1..m : i < j => (o[i] # o[j] /\ d(o[i]) <= d(o[j]))
                     /\ \A x \in (1..n) \ {o[i] : i \in 1..m} :
                            \A i \in 1..m : d(o[i]) <= d(x)}
    IN  {[j \in 1..k |-> IF j <= m THEN [dist |-> d(o[j]), idx |-> o[j] - 1]
                                   ELSE [dist |-> FLT_MAX, idx |-> -1]] : o \in orders}

\* seq[i] in Python: a negative i counts from the end, and a position outside
\* the list raises IndexError.
PyIndexRaises(seq, i) == i >= Len(seq) \/ i < 0 - Len(seq)
PyIndex(seq, i) == IF i >= 0 THEN seq[i + 1] ELSE seq[Len(seq) + i + 1]

(***************************************************************************)
(* The inputs of the model.                                                *)
(***************************************************************************)
\* n one-letter words separated by single spaces.
Repeat(n) == [i \in 1..(2 * n - 1) |-> IF i % 2 = 1 THEN "a" ELSE " "]

WhitespaceText == <<" ">>
ShortText == <<"a", " ", "b">>
LongText == Repeat(DefaultChunkSize - DefaultOverlap + 10)

DocTexts == {"blank", "short", "long"}
text_of(t) == CASE t = "blank" -> WhitespaceText
                [] t = "short" -> ShortText
                [] t = "long" -> LongText
Filenames == {"a.txt", "b.txt"}
Documents ==
    {[text |-> "blank", filename |-> "a.txt"],
     [text |-> "short", filename |-> "a.txt"],
     [text |-> "short", filename |-> "b.txt"],
     [text |-> "long", filename |-> "a.txt"]}
Batches == UNION {[1..n -> Documents] : n \in 0..MaxBatch}

Queries == {<<"a">>, <<"a", "b">>, <<"a", " ", "b">>}
Thresholds == {1, DefaultThreshold, Inf}

\* Texts, chunk sizes and overlaps handed to chunk_text directly.
SmallTexts == UNION {[1..n -> Chars] : n \in 0..MaxTextLen}
ChunkSizes == 1..MaxChunkSize
Overlaps == 0..(MaxChunkSize + 1)

CompletionOutcomes == {"ok", "error"}
SaveOutcomes == {"ok", "index_write_fails", "chunks_write_fails"}

(***************************************************************************)
(* The record of a call: what was asked, what came back, and how often the *)
(* call used each collaborator.                                            *)
(***************************************************************************)
NoCall ==
    [op |-> "none", args |-> <<>>, raised |-> FALSE, ret |-> <<>>,
     store_before |-> 0,      \* len(self.chunks) when the call began
     hits |-> <<>>,           \* what index.search answered
     looked_up |-> <<>>,      \* the idx of every hit that was emitted
     retrieved |-> <<>>,      \* what retrieve_relevant_chunks returned
     embed_calls |-> 0, search_calls |-> 0, llm_calls |-> 0, llm_failed |-> FALSE,
     docs_done |-> 0,         \* documents appended by add_documents
     saves |-> 0,             \* calls of save_index
     saved_after |-> 0,       \* documents appended when save_index was called
     document |-> <<>>,       \* the document of a one-document add_documents call
     stats_before |-> <<>>,   \* what get_stats would have returned when the call began
     files_before |-> {},     \* the filenames in the chunk store when the call began
     prev |-> <<>>]           \* the record of the call before a get_stats call

(***************************************************************************)
(* RAGEngine.save_index and RAGEngine.load_index                           *)
(***************************************************************************)
NoFile == [exists |-> FALSE, data |-> <<>>]
File(data) == [exists |-> TRUE, data |-> data]

\* faiss.write_index, then open(chunks_path, 'w') and json.dump.  Either write
\* may fail; a failure of the second leaves the first file written.
save_index(outcome, idx, chs) ==
    [index |-> IF outcome = "index_write_fails" THEN disk_index ELSE File(idx),
     chunks |-> IF outcome = "ok" THEN File(chs) ELSE disk_chunks,
     raised |-> outcome # "ok"]

load_index ==
    IF disk_index.exists /\ disk_chunks.exists
    THEN [index |-> disk_index.data, chunks |-> disk_chunks.data]
    ELSE [index |-> <<>>, chunks |-> <<>>]

(***************************************************************************)
(* RAGEngine.get_stats                                                     *)
(***************************************************************************)
\* set(chunk['filename'] for chunk in self.chunks)
filenames_of(chs) == {chs[i].filename : i \in 1..Len(chs)}

get_stats ==
    [total_chunks |-> Len(chunks),
     total_documents |-> IF chunks # <<>>
                         THEN Cardinality({chunks[i].filename : i \in 1..Len(chunks)})
                         ELSE 0]

GetStats ==
    /\ last' = [NoCall EXCEPT !.op = "get_stats", !.store_before = Len(chunks),
                              !.ret = get_stats, !.prev = <<last>>]
    /\ UNCHANGED <<index, chunks, disk_index, disk_chunks, all_succeeded, faults, issued, reissued,
                   http>>

(***************************************************************************)
(* RAGEngine.add_documents                                                 *)
(***************************************************************************)
\* self.chunk_text(text) of every document text of the model, computed once.
default_chunks ==
    [t \in DocTexts |-> chunk_text(text_of(t), DefaultChunkSize, DefaultOverlap)]

\* The string of a stored chunk text.
chunk_chars(c) == default_chunks[c.doc][c.part]

\* A variant of next_chunk_id that numbers the records from 1.
next_chunk_id_one_based(chs) == Len(chs) + 1

\* 'chunk_id': len(self.chunks), read when the record is built
next_chunk_id(chs) == Len(chs)

\* A variant of store_chunks that appends a record for the first chunk only.
store_chunks_first_only(chs, text_chunks, filename) ==
    IF text_chunks = <<>> THEN chs
    ELSE Append(chs, [text |-> Head(text_chunks),
                      filename |-> filename,
                      chunk_id |-> next_chunk_id(chs)])

\* for i, chunk in enumerate(text_chunks): self.chunks.append({...})
RECURSIVE store_chunks(_, _, _)
store_chunks(chs, text_chunks, filename) ==
    IF text_chunks = <<>> THEN chs
    ELSE store_chunks(Append(chs, [text |-> Head(text_chunks),
                                   filename |-> filename,
                                   chunk_id |-> next_chunk_id(chs)]),
                      Tail(text_chunks), filename)

\* A variant of ingest that calls save_index after each document it appends.
RECURSIVE ingest_saving_each_document(_, _, _, _)
ingest_saving_each_document(idx, chs, documents, done) ==
    IF documents = <<>>
    THEN [index |-> idx, chunks |-> chs, raised |-> FALSE, done |-> done, saves |-> done]
    ELSE LET doc == Head(documents)
             text_chunks == default_chunks[doc.text]
             embeddings == [j \in 1..Len(text_chunks) |-> encode(text_chunks[j])]
             names == [j \in 1..Len(text_chunks) |-> [doc |-> doc.text, part |-> j]]
         IN  IF index_add_raises(embeddings)
             THEN [index |-> idx, chunks |-> chs, raised |-> TRUE, done |-> done,
                   saves |-> done]
             ELSE ingest_saving_each_document(idx \o embeddings,
                                              store_chunks(chs, names, doc.filename),
                                              Tail(documents), done + 1)

\* The loop over the documents: it stops at the first document on which
\* index.add raises, with the earlier documents already appended.  The loop
\* itself never calls save_index.
RECURSIVE ingest(_, _, _, _)
ingest(idx, chs, documents, done) ==
    IF documents = <<>>
    THEN [index |-> idx, chunks |-> chs, raised |-> FALSE, done |-> done, saves |-> 0]
    ELSE LET doc == Head(documents)
             text_chunks == default_chunks[doc.text]
             embeddings == [j \in 1..Len(text_chunks) |-> encode(text_chunks[j])]
             names == [j \in 1..Len(text_chunks) |-> [doc |-> doc.text, part |-> j]]
         IN  IF index_add_raises(embeddings)
             THEN [index |-> idx, chunks |-> chs, raised |-> TRUE, done |-> done,
                   saves |-> 0]
             ELSE ingest(idx \o embeddings,
                         store_chunks(chs, names, doc.filename),
                         Tail(documents), done + 1)

\* The chunk_ids carried by the records at positions from..to of chs.
IdsOf(chs, from, to) == {chs[i].chunk_id : i \in from..to}

AddDocuments ==
    \E documents \in Batches :
        LET r == ingest(index, chunks, documents, 0)
            new == IdsOf(r.chunks, Len(chunks) + 1, Len(r.chunks))
            call == [NoCall EXCEPT !.op = "add_documents", !.args = <<Len(documents)>>,
                                   !.store_before = Len(chunks), !.docs_done = r.done,
                                   !.document = IF Len(documents) = 1 THEN documents ELSE <<>>,
                                   !.stats_before = get_stats,
                                   !.files_before = filenames_of(chunks)]
        IN  /\ Len(r.chunks) <= MaxChunks
            /\ UNCHANGED http
            /\ index' = r.index
            /\ chunks' = r.chunks
            /\ issued' = issued \cup new
            /\ reissued' = (reissued \/ new \cap issued # {}
                                     \/ Cardinality(new) < Len(r.chunks) - Len(chunks))
            /\ IF r.raised
               THEN /\ UNCHANGED <<disk_index, disk_chunks, faults>>
                    /\ all_succeeded' = FALSE
                    /\ last' = [call EXCEPT !.raised = TRUE, !.saves = r.saves]
               ELSE \E outcome \in SaveOutcomes :
                        LET saved == save_index(outcome, r.index, r.chunks)
                        IN  /\ outcome = "ok" \/ faults < MaxFaults
                            /\ disk_index' = saved.index
                            /\ disk_chunks' = saved.chunks
                            /\ faults' = IF saved.raised THEN faults + 1 ELSE faults
                            /\ all_succeeded' = (all_succeeded /\ ~saved.raised)
                            /\ last' = [call EXCEPT !.raised = saved.raised,
                                                    !.saves = r.saves + 1,
                                                    !.saved_after = r.done]

(***************************************************************************)
(* RAGEngine.clear_index                                                   *)
(***************************************************************************)
\* A variant of ClearIndex that resets the engine without calling save_index.
ClearIndex_without_save ==
    /\ index' = <<>>
    /\ chunks' = <<>>
    /\ UNCHANGED <<disk_index, disk_chunks, faults, all_succeeded, issued, reissued, http>>
    /\ last' = [NoCall EXCEPT !.op = "clear_index", !.store_before = Len(chunks),
                              !.stats_before = get_stats,
                              !.files_before = filenames_of(chunks)]

ClearIndex ==
    \E outcome \in SaveOutcomes :
        LET saved == save_index(outcome, <<>>, <<>>)
        IN  /\ outcome = "ok" \/ faults < MaxFaults
            /\ index' = <<>>
            /\ chunks' = <<>>
            /\ disk_index' = saved.index
            /\ disk_chunks' = saved.chunks
            /\ faults' = IF saved.raised THEN faults + 1 ELSE faults
            /\ all_succeeded' = (all_succeeded /\ ~saved.raised)
            /\ UNCHANGED <<issued, reissued, http>>
            /\ last' = [NoCall EXCEPT !.op = "clear_index", !.store_before = Len(chunks),
                                      !.stats_before = get_stats,
                                      !.files_before = filenames_of(chunks),
                                      !.raised = saved.raised, !.saves = 1]

(***************************************************************************)
(* RAGEngine.__init__ of a new process: an empty engine, then load_index.  *)
(***************************************************************************)
Restart ==
    /\ index' = load_index.index
    /\ chunks' = load_index.chunks
    /\ last' = [NoCall EXCEPT !.op = "__init__"]
    /\ UNCHANGED <<disk_index, disk_chunks, all_succeeded, faults, issued, reissued, http>>

(***************************************************************************)
(* RAGEngine.retrieve_relevant_chunks                                      *)
(***************************************************************************)
\* A variant of store_is_empty that never takes the early return.
store_is_empty_ignored(chs) == FALSE

\* if len(self.chunks) == 0: return []
store_is_empty(chs) == Len(chs) = 0

\* if dist < similarity_threshold and idx < len(self.chunks)
keeps(hit, similarity_threshold, n) ==
    hit.dist < similarity_threshold /\ hit.idx < n

\* The hits the loop emits, in the order of the search answer.
kept_hits(chs, hits, similarity_threshold) ==
    SelectSeq(hits, LAMBDA h : keeps(h, similarity_threshold, Len(chs)))

\* chunk_data = self.chunks[idx].copy(); chunk_data['similarity_score'] = float(dist)
relevant_chunks(chs, hits, similarity_threshold) ==
    LET kept == kept_hits(chs, hits, similarity_threshold)
    IN  [j \in 1..Len(kept) |->
            LET c == PyIndex(chs, kept[j].idx)
            IN  [text |-> c.text, filename |-> c.filename, chunk_id |-> c.chunk_id,
                 similarity_score |-> kept[j].dist]]

\* Every outcome of one call, one per answer the index may give.
retrieve_relevant_chunks(query, top_k, similarity_threshold) ==
    IF store_is_empty(chunks)
    THEN {[raised |-> FALSE, ret |-> <<>>, hits |-> <<>>, looked_up |-> <<>>,
           embed_calls |-> 0, search_calls |-> 0]}
    ELSE {LET kept == kept_hits(chunks, hits, similarity_threshold)
              raised == \E j \in 1..Len(kept) : PyIndexRaises(chunks, kept[j].idx)
          IN  [raised |-> raised,
               ret |-> IF raised THEN <<>>
                       ELSE relevant_chunks(chunks, hits, similarity_threshold),
               hits |-> hits,
               looked_up |-> [j \in 1..Len(kept) |-> kept[j].idx],
               embed_calls |-> 1, search_calls |-> 1] :
          hits \in search(index, encode(query), top_k)}

Retrieve ==
    \E query \in Queries, top_k \in 1..MaxTopK, similarity_threshold \in Thresholds :
        \E r \in retrieve_relevant_chunks(query, top_k, similarity_threshold) :
            /\ last' = [NoCall EXCEPT !.op = "retrieve_relevant_chunks",
                                      !.args = <<query, top_k, similarity_threshold>>,
                                      !.store_before = Len(chunks),
                                      !.raised = r.raised,
                                      !.ret = r.ret, !.retrieved = r.ret, !.hits = r.hits,
                                      !.looked_up = r.looked_up,
                                      !.embed_calls = r.embed_calls,
                                      !.search_calls = r.search_calls]
            /\ all_succeeded' = (all_succeeded /\ ~r.raised)
            /\ UNCHANGED <<index, chunks, disk_index, disk_chunks, faults, issued, reissued, http>>

(***************************************************************************)
(* RAGEngine.generate_answer and RAGEngine.query                           *)
(***************************************************************************)
\* A variant of generate_answer without the early return on an empty context.
generate_answer_always_completes(context_chunks, completion) ==
    IF completion = "ok"
    THEN [raised |-> FALSE, llm_calls |-> 1, answer |-> CompletionAnswer]
    ELSE [raised |-> FALSE, llm_calls |-> 1, answer |-> ErrorAnswer]

\* A variant of generate_answer without the try/except around the completion call.
generate_answer_uncaught(context_chunks, completion) ==
    IF context_chunks = <<>>
    THEN [raised |-> FALSE, llm_calls |-> 0, answer |-> Refusal]
    ELSE IF completion = "ok"
    THEN [raised |-> FALSE, llm_calls |-> 1, answer |-> CompletionAnswer]
    ELSE [raised |-> TRUE, llm_calls |-> 1, answer |-> ErrorAnswer]

\* The completion call sits in try/except Exception: a failure becomes the answer.
generate_answer(context_chunks, completion) ==
    IF context_chunks = <<>>
    THEN [raised |-> FALSE, llm_calls |-> 0, answer |-> Refusal]
    ELSE IF completion = "ok"
    THEN [raised |-> FALSE, llm_calls |-> 1, answer |-> CompletionAnswer]
    ELSE [raised |-> FALSE, llm_calls |-> 1, answer |-> ErrorAnswer]

\* chunk['text'][:200] + "..." if len(chunk['text']) > 200 else chunk['text']
text_snippet(text) ==
    IF Len(text) > SnippetLen THEN SubSeq(text, 1, SnippetLen) \o Ellipsis ELSE text

\* round(score, 3): a distance counted in halves has at most one decimal.
round3(score) == score

\* for chunk in relevant_chunks: sources.append({...})
sources_of(relevant) ==
    [j \in 1..Len(relevant) |->
        [filename |-> relevant[j].filename,
         text_snippet |-> text_snippet(chunk_chars(relevant[j].text)),
         similarity_score |-> round3(relevant[j].similarity_score)]]

Query ==
    \E question \in Queries, completion \in CompletionOutcomes :
        \E r \in retrieve_relevant_chunks(question, DefaultTopK, DefaultThreshold) :
            LET g == generate_answer(r.ret, completion)
                sources == sources_of(r.ret)
                raised == r.raised \/ g.raised
                call == [NoCall EXCEPT !.op = "query",
                                       !.args = <<question>>,
                                       !.store_before = Len(chunks),
                                       !.retrieved = r.ret, !.hits = r.hits,
                                       !.looked_up = r.looked_up,
                                       !.embed_calls = r.embed_calls,
                                       !.search_calls = r.search_calls,
                                       !.llm_calls = IF r.raised THEN 0 ELSE g.llm_calls,
                                       !.llm_failed = (~r.raised /\ g.llm_calls > 0
                                                          /\ completion = "error")]
            IN  /\ last' = IF raised
                           THEN [call EXCEPT !.raised = TRUE]
                           ELSE [call EXCEPT !.ret = [answer |-> g.answer,
                                                      sources |-> sources,
                                                      num_sources |-> Len(sources)]]
                /\ all_succeeded' = (all_succeeded /\ ~raised)
                /\ UNCHANGED <<index, chunks, disk_index, disk_chunks, faults, issued, reissued, http>>

(***************************************************************************)
(* A direct call of RAGEngine.chunk_text                                   *)
(***************************************************************************)
ChunkText ==
    \E text \in SmallTexts, chunk_size \in ChunkSizes, overlap \in Overlaps :
        /\ last = NoCall
        /\ last' = IF chunk_text_raises(text, chunk_size, overlap)
                   THEN [NoCall EXCEPT !.op = "chunk_text",
                                       !.args = <<text, chunk_size, overlap>>,
                                       !.raised = TRUE]
                   ELSE [NoCall EXCEPT !.op = "chunk_text",
                                       !.args = <<text, chunk_size, overlap>>,
                                       !.ret = chunk_text(text, chunk_size, overlap)]
        /\ UNCHANGED <<index, chunks, disk_index, disk_chunks, all_succeeded, faults,
                       issued, reissued, http>>

(***************************************************************************)
(* The HTTP layer: upload_files, query and clear_index of fastapi_app.py,   *)
(* run by the one event loop of uvicorn.run(app).  A request waits until   *)
(* the loop is free; its handler then runs statement by statement, and the *)
(* loop can turn to another handler only where the running one awaits.     *)
(***************************************************************************)
Slots == 1..MaxRequests

NoHandler == [kind |-> "none", pc |-> "done", docs |-> <<>>, seen |-> <<>>]

NoRequests ==
    [waiting |-> 0,                           \* requests accepted, handler not begun
     running |-> 0,                           \* the slot of the handler that holds the loop
     handler |-> [s \in Slots |-> NoHandler]] \* the handlers begun and not ended

\* A variant of awaits in which a handler gives up the loop before every
\* statement, as one run outside the event loop would.
awaits_before_every_statement(kind, pc) == TRUE

\* Whether the handler awaits before the statement at pc: upload_files, query
\* and clear_index are async def without an await expression, and the
\* RAGEngine methods they call are plain functions.
awaits(kind, pc) == FALSE

\* The handler in slot s may take its next statement.
MayRun(s) == http.running = s \/ http.running = 0

\* Slot s is the first slot without a handler.
FreeSlot(s) ==
    /\ http.handler[s].kind = "none"
    /\ \A t \in 1..(s - 1) : http.handler[t].kind # "none"

\* The requests after the handler in slot s has become h: the handler keeps
\* the loop unless it has ended or awaits.
Proceed(req, s, h) ==
    [req EXCEPT !.handler[s] = h,
                !.running = IF h.kind = "none" \/ awaits(h.kind, h.pc) THEN 0 ELSE s]

\* The chunk records a batch would add.
RECURSIVE chunks_in(_)
chunks_in(documents) ==
    IF documents = <<>> THEN 0
    ELSE Len(default_chunks[Head(documents).text]) + chunks_in(Tail(documents))

\* A client sends a request while others may be in flight.
Arrive ==
    /\ http.waiting + Cardinality({s \in Slots : http.handler[s].kind # "none"}) < MaxRequests
    /\ http' = [http EXCEPT !.waiting = @ + 1]
    /\ UNCHANGED <<index, chunks, disk_index, disk_chunks, all_succeeded, faults, issued,
                   reissued, last>>

\* upload_files up to the call of rag_engine.add_documents(documents)
StartUpload ==
    \E s \in Slots, documents \in Batches \ {<<>>} :
        /\ http.waiting > 0
        /\ http.running = 0
        /\ FreeSlot(s)
        /\ Len(chunks) + chunks_in(documents) <= MaxChunks
        /\ http' = Proceed([http EXCEPT !.waiting = @ - 1], s,
                           [NoHandler EXCEPT !.kind = "upload", !.pc = "add",
                                             !.docs = documents])
        /\ UNCHANGED <<index, chunks, disk_index, disk_chunks, all_succeeded, faults, issued,
                       reissued, last>>

\* add_documents: chunk_text, encode and self.index.add for the next document
UploadAdd ==
    \E s \in Slots :
        LET h == http.handler[s]
            text_chunks == default_chunks[Head(h.docs).text]
            embeddings == [j \in 1..Len(text_chunks) |-> encode(text_chunks[j])]
        IN  /\ h.kind = "upload" /\ h.pc = "add"
            /\ MayRun(s)
            /\ Len(index) + Len(embeddings) <= MaxChunks
            /\ IF index_add_raises(embeddings)
               THEN /\ http' = Proceed(http, s, NoHandler)
                    /\ all_succeeded' = FALSE
                    /\ UNCHANGED index
               ELSE /\ http' = Proceed(http, s, [h EXCEPT !.pc = "append"])
                    /\ index' = index \o embeddings
                    /\ UNCHANGED all_succeeded
            /\ UNCHANGED <<chunks, disk_index, disk_chunks, faults, issued, reissued, last>>

\* add_documents: the loop that appends the chunk records of that document
UploadAppend ==
    \E s \in Slots :
        LET h == http.handler[s]
            doc == Head(h.docs)
            text_chunks == default_chunks[doc.text]
            names == [j \in 1..Len(text_chunks) |-> [doc |-> doc.text, part |-> j]]
            stored == store_chunks(chunks, names, doc.filename)
            new == IdsOf(stored, Len(chunks) + 1, Len(stored))
        IN  /\ h.kind = "upload" /\ h.pc = "append"
            /\ MayRun(s)
            /\ Len(stored) <= MaxChunks
            /\ chunks' = stored
            /\ issued' = issued \cup new
            /\ reissued' = (reissued \/ new \cap issued # {})
            /\ http' = Proceed(http, s,
                               [h EXCEPT !.docs = Tail(h.docs),
                                         !.pc = IF Tail(h.docs) = <<>> THEN "save" ELSE "add"])
            /\ UNCHANGED <<index, disk_index, disk_chunks, all_succeeded, faults, last>>

\* add_documents: self.save_index() after the loop, then the response
UploadSave ==
    \E s \in Slots, outcome \in SaveOutcomes :
        LET h == http.handler[s]
            saved == save_index(outcome, index, chunks)
        IN  /\ h.kind = "upload" /\ h.pc = "save"
            /\ MayRun(s)
            /\ outcome = "ok" \/ faults < MaxFaults
            /\ disk_index' = saved.index
            /\ disk_chunks' = saved.chunks
            /\ faults' = IF saved.raised THEN faults + 1 ELSE faults
            /\ all_succeeded' = (all_succeeded /\ ~saved.raised)
            /\ http' = Proceed(http, s, NoHandler)
            /\ UNCHANGED <<index, chunks, issued, reissued, last>>

\* clear_index of fastapi_app.py up to the first statement of RAGEngine.clear_index
StartClear ==
    \E s \in Slots :
        /\ http.waiting > 0
        /\ http.running = 0
        /\ FreeSlot(s)
        /\ http' = Proceed([http EXCEPT !.waiting = @ - 1], s,
                           [NoHandler EXCEPT !.kind = "clear", !.pc = "reset_index"])
        /\ UNCHANGED <<index, chunks, disk_index, disk_chunks, all_succeeded, faults, issued,
                       reissued, last>>

\* self.index = faiss.IndexFlatL2(self.embedding_dim)
ClearResetIndex ==
    \E s \in Slots :
        LET h == http.handler[s]
        IN  /\ h.kind = "clear" /\ h.pc = "reset_index"
            /\ MayRun(s)
            /\ index' = <<>>
            /\ http' = Proceed(http, s, [h EXCEPT !.pc = "reset_chunks"])
            /\ UNCHANGED <<chunks, disk_index, disk_chunks, all_succeeded, faults, issued,
                           reissued, last>>

\* self.chunks = []
ClearResetChunks ==
    \E s \in Slots :
        LET h == http.handler[s]
        IN  /\ h.kind = "clear" /\ h.pc = "reset_chunks"
            /\ MayRun(s)
            /\ chunks' = <<>>
            /\ http' = Proceed(http, s, [h EXCEPT !.pc = "save"])
            /\ UNCHANGED <<index, disk_index, disk_chunks, all_succeeded, faults, issued,
                           reissued, last>>

\* self.save_index() of clear_index, then the response
ClearSave ==
    \E s \in Slots, outcome \in SaveOutcomes :
        LET h == http.handler[s]
            saved == save_index(outcome, index, chunks)
        IN  /\ h.kind = "clear" /\ h.pc = "save"
            /\ MayRun(s)
            /\ outcome = "ok" \/ faults < MaxFaults
            /\ disk_index' = saved.index
            /\ disk_chunks' = saved.chunks
            /\ faults' = IF saved.raised THEN faults + 1 ELSE faults
            /\ all_succeeded' = (all_succeeded /\ ~saved.raised)
            /\ http' = Proceed(http, s, NoHandler)
            /\ UNCHANGED <<index, chunks, issued, reissued, last>>

\* query of fastapi_app.py up to the call of rag_engine.query(question)
StartQuery ==
    \E s \in Slots :
        /\ http.waiting > 0
        /\ http.running = 0
        /\ FreeSlot(s)
        /\ http' = Proceed([http EXCEPT !.waiting = @ - 1], s,
                           [NoHandler EXCEPT !.kind = "query", !.pc = "search"])
        /\ UNCHANGED <<index, chunks, disk_index, disk_chunks, all_succeeded, faults, issued,
                       reissued, last>>

\* retrieve_relevant_chunks up to self.index.search: on an empty store the
\* query ends with the refusal, otherwise the search reads the index.
QuerySearch ==
    \E s \in Slots :
        LET h == http.handler[s]
            seen == [ntotal |-> Len(index), nchunks |-> Len(chunks),
                     mid_ingestion |-> \E t \in Slots : /\ http.handler[t].kind = "upload"
                                                        /\ http.handler[t].pc = "append"]
        IN  /\ h.kind = "query" /\ h.pc = "search"
            /\ MayRun(s)
            /\ http' = Proceed(http, s,
                               IF store_is_empty(chunks) THEN NoHandler
                               ELSE [h EXCEPT !.pc = "lookup", !.seen = <<seen>>])
            /\ UNCHANGED <<index, chunks, disk_index, disk_chunks, all_succeeded, faults,
                           issued, reissued, last>>

\* retrieve_relevant_chunks: the loop over the hits that reads self.chunks,
\* then generate_answer and the response
QueryLookup ==
    \E s \in Slots :
        LET h == http.handler[s]
        IN  /\ h.kind = "query" /\ h.pc = "lookup"
            /\ MayRun(s)
            /\ http' = Proceed(http, s, NoHandler)
            /\ UNCHANGED <<index, chunks, disk_index, disk_chunks, all_succeeded, faults,
                           issued, reissued, last>>

(***************************************************************************)
(* The specifications.                                                     *)
(***************************************************************************)
\* A first start on an empty vector_store directory.
Init ==
    /\ index = <<>>
    /\ chunks = <<>>
    /\ disk_index = NoFile
    /\ disk_chunks = NoFile
    /\ all_succeeded = TRUE
    /\ faults = 0
    /\ issued = {}
    /\ reissued = FALSE
    /\ last = NoCall
    /\ http = NoRequests

\* The calls that change nothing but the record of the call.
ReadOnlyOps == {"get_stats", "retrieve_relevant_chunks", "query"}

\* The engine as the HTTP layer and a process restart drive it.  A behaviour is
\* followed up to its first read-only call: the calls that could come after it
\* start from an engine state that is reached without it just the same.
Next ==
    \/ last.op \notin ReadOnlyOps /\ AddDocuments
    \/ last.op \notin ReadOnlyOps /\ ClearIndex
    \/ last.op \notin ReadOnlyOps /\ Restart
    \/ last.op \notin ReadOnlyOps /\ GetStats

Spec == Init /\ [][Next]_vars

\* The stores that ingestion builds from an empty engine.
StoreBatches == UNION {[1..n -> Documents] : n \in 0..MaxChunks}
Stores ==
    {[index |-> r.index, chunks |-> r.chunks] :
        r \in {x \in {ingest(<<>>, <<>>, documents, 0) : documents \in StoreBatches} :
                  ~x.raised /\ Len(x.chunks) <= MaxChunks}}

\* The vectors that belong to the records chs.
vectors_of(chs) == [i \in 1..Len(chs) |-> encode(chunk_chars(chs[i].text))]

\* A process that has just started on the files an earlier process left: the
\* two files hold the same store when the last save completed, and the index
\* of one store with the records of another when the second write of a save
\* failed after an earlier save had failed too or had been skipped.
InitQuery ==
    \E a \in Stores, b \in Stores :
        /\ index = a.index
        /\ chunks = b.chunks
        /\ disk_index = File(a.index)
        /\ disk_chunks = File(b.chunks)
        /\ all_succeeded = (a.index = vectors_of(b.chunks))
        /\ faults = IF a.index = vectors_of(b.chunks) THEN 0 ELSE 1
        /\ issued = IdsOf(b.chunks, 1, Len(b.chunks))
        /\ reissued = FALSE
        /\ last = NoCall
        /\ http = NoRequests

\* One retrieval or one query on such an engine.
NextQuery ==
    \/ last.op \notin ReadOnlyOps /\ Retrieve
    \/ last.op \notin ReadOnlyOps /\ Query

SpecQuery == InitQuery /\ [][NextQuery]_vars

\* The engine behind the HTTP layer, from a first start, with requests
\* arriving at any time.
NextHTTP ==
    \/ Arrive
    \/ StartUpload
    \/ UploadAdd
    \/ UploadAppend
    \/ UploadSave
    \/ StartClear
    \/ ClearResetIndex
    \/ ClearResetChunks
    \/ ClearSave
    \/ StartQuery
    \/ QuerySearch
    \/ QueryLookup

SpecHTTP == Init /\ [][NextHTTP]_vars

\* chunk_text on its own, over every small text, chunk size and overlap.
NextChunk == ChunkText

SpecChunk == Init /\ [][NextChunk]_vars

(***************************************************************************)
(* The claims.                                                             *)
(***************************************************************************)

\* C1: as long as every call has succeeded, the vector index holds as many
\* vectors as the chunk store holds records (after add_documents, after
\* clear_index, and after a restart that loads what they saved).
C1_IndexMatchesStore == all_succeeded => Len(index) = Len(chunks)

\* A document of two chunks has been ingested into a loaded engine.
C1_Witness ==
    /\ all_succeeded
    /\ last.op = "add_documents"
    /\ last.docs_done = 1
    /\ disk_chunks.exists
    /\ Len(chunks) = 2
    /\ chunks[2].text.part = 2
    /\ Len(index) = 2

\* The record at each position of the chunk store carries that position as its
\* chunk_id.
PositionIds == \A i \in 1..Len(chunks) : chunks[i].chunk_id = i - 1

\* C2 as claimed: every chunk_id is the length of the store just before the
\* insertion, and no chunk_id is ever assigned twice, whatever add_documents
\* and clear_index calls are made.
C2_NeverReused == PositionIds /\ ~reissued

\* C2 as amended: every chunk_id is the length of the store just before the
\* insertion, so that within the store the ids are unique and increasing.
C2_PositionIds == PositionIds

\* Two records are stored, the last call appended both, and their chunk_ids
\* had been assigned before.
C2_Witness ==
    /\ reissued
    /\ last.op = "add_documents"
    /\ last.store_before = 0
    /\ last.docs_done = 2
    /\ Len(chunks) = 2

\* The arguments of a direct chunk_text call.
ArgText == last.args[1]
ArgChunkSize == last.args[2]
ArgOverlap == last.args[3]

\* C3: with 0 <= overlap < chunk_size, a text of at least one and fewer than
\* chunk_size words gives exactly one chunk, its words joined by single
\* spaces, and a text without words gives no chunk.
C3_ShortTextOneChunk ==
    (last.op = "chunk_text" /\ ArgOverlap < ArgChunkSize) =>
        LET words == split(ArgText)
        IN  /\ ~last.raised
            /\ (Len(words) >= 1 /\ Len(words) < ArgChunkSize)
                   => last.ret = <<join(<<" ">>, words)>>
            /\ Len(words) = 0 => last.ret = <<>>

\* C4: chunk_text with overlap >= chunk_size raises, whatever the text.
C4_BadOverlapRejected ==
    (last.op = "chunk_text" /\ ArgOverlap >= ArgChunkSize) => last.raised

\* C5: with 0 <= overlap < chunk_size and a text of at least one word, window
\* j (from 0) is the at most chunk_size words from word j * (chunk_size -
\* overlap) on, and the last overlap words of each window are the first
\* overlap words of the next.
C5_WindowsOverlap ==
    (last.op = "chunk_text" /\ ArgOverlap < ArgChunkSize /\ Len(split(ArgText)) >= 1) =>
        LET words == split(ArgText)
            step == ArgChunkSize - ArgOverlap
            w == [j \in 1..Len(last.ret) |-> split(last.ret[j])]
        IN  /\ ~last.raised
            /\ \A j \in 1..Len(w) :
                   /\ Len(w[j]) <= ArgChunkSize
                   /\ w[j] = SubSeq(words, (j - 1) * step + 1,
                                    Min((j - 1) * step + ArgChunkSize, Len(words)))
            /\ \A j \in 1..(Len(w) - 1) :
                   /\ Len(w[j]) >= ArgOverlap
                   /\ Len(w[j + 1]) >= ArgOverlap
                   /\ SubSeq(w[j], Len(w[j]) - ArgOverlap + 1, Len(w[j]))
                          = SubSeq(w[j + 1], 1, ArgOverlap)

\* The arguments of a direct retrieve_relevant_chunks call.
ArgTopK == last.args[2]
ArgThreshold == last.args[3]

\* The hits at increasing positions of the search answer have the indices idxs.
InSearchOrder(idxs, hits) ==
    \E f \in [1..Len(idxs) -> 1..Len(hits)] :
        /\ \A i, j \in 1..Len(idxs) : i < j => f[i] < f[j]
        /\ \A j \in 1..Len(idxs) : hits[f[j]].idx = idxs[j]

\* C6: retrieve_relevant_chunks with top_k = k on a store of n chunks returns
\* at most min(n, k) results, each at a distance below the threshold, in the
\* ascending order of the search answer.
C6_AtMostMinResults ==
    last.op = "retrieve_relevant_chunks" =>
        /\ ~last.raised
        /\ Len(last.ret) <= Min(last.store_before, ArgTopK)
        /\ \A j \in 1..Len(last.ret) : last.ret[j].similarity_score < ArgThreshold
        /\ \A i, j \in 1..Len(last.ret) :
               i < j => last.ret[i].similarity_score <= last.ret[j].similarity_score
        /\ InSearchOrder(last.looked_up, last.hits)

\* C7: every result retrieve_relevant_chunks emits was looked up at an index
\* idx with 0 <= idx < len(self.chunks), whatever the threshold.
C7_OnlyValidPositions ==
    last.op \in {"retrieve_relevant_chunks", "query"} =>
        \A j \in 1..Len(last.looked_up) :
            0 <= last.looked_up[j] /\ last.looked_up[j] < last.store_before

\* C8: on an empty chunk store retrieve_relevant_chunks returns the empty list,
\* raises nothing and calls neither the embedding model nor the index search.
C8_EmptyStoreShortCircuit ==
    (last.op \in {"retrieve_relevant_chunks", "query"} /\ last.store_before = 0) =>
        /\ ~last.raised
        /\ last.retrieved = <<>>
        /\ last.embed_calls = 0
        /\ last.search_calls = 0

\* A retrieval on an engine whose chunk store is empty while its index is not.
C8_Witness ==
    /\ last.op = "retrieve_relevant_chunks"
    /\ last.store_before = 0
    /\ Len(index) > 0
    /\ last.ret = <<>>

\* C9: when retrieval yields nothing, query returns the refusal answer with no
\* sources and num_sources = 0, and the completion service is not called.
C9_RefusalWithoutCompletion ==
    (last.op = "query" /\ last.retrieved = <<>>) =>
        /\ ~last.raised
        /\ last.ret.answer = Refusal
        /\ last.ret.sources = <<>>
        /\ last.ret.num_sources = 0
        /\ last.llm_calls = 0

\* A query on a store that holds chunks, all of them filtered out.
C9_Witness ==
    /\ last.op = "query"
    /\ last.store_before > 0
    /\ last.search_calls = 1
    /\ last.retrieved = <<>>
    /\ last.ret.answer = Refusal

\* C10: when the completion service fails, query still returns: the answer
\* describes the error, there is one source per retrieved chunk in retrieval
\* order, and num_sources counts the sources.
C10_CompletionFailureContained ==
    (last.op = "query" /\ last.llm_failed) =>
        /\ ~last.raised
        /\ last.ret.answer = ErrorAnswer
        /\ Len(last.ret.sources) = Len(last.retrieved)
        /\ last.ret.num_sources = Len(last.ret.sources)
        /\ \A j \in 1..Len(last.retrieved) :
               LET src == last.ret.sources[j]
                   text == chunk_chars(last.retrieved[j].text)
               IN  /\ src.filename = last.retrieved[j].filename
                   /\ src.similarity_score = last.retrieved[j].similarity_score
                   /\ Len(src.text_snippet) <= SnippetLen + Len(Ellipsis)
                   /\ SubSeq(src.text_snippet, 1, Min(SnippetLen, Len(text)))
                          = SubSeq(text, 1, Min(SnippetLen, Len(text)))

\* A query whose completion failed after two or more chunks were retrieved.
C10_Witness ==
    /\ last.op = "query"
    /\ last.llm_failed
    /\ last.ret.num_sources >= 2

\* The call before the get_stats call that last records.
PrevCall == last.prev[1]

\* get_stats has answered right after an add_documents call of one document
\* whose save_index, if it came to it, did not fail.
AfterSingleDocument ==
    /\ last.op = "get_stats"
    /\ PrevCall.op = "add_documents"
    /\ PrevCall.document # <<>>
    /\ PrevCall.saves = 0 \/ ~PrevCall.raised

\* C11: add_documents of one document {text, filename} succeeds for every text,
\* also one without words, and get_stats then reports total_chunks grown by the
\* number of chunks chunk_text makes of the text, and total_documents grown by
\* 1 when the filename was not in the chunk store and by 0 when it was.
C11_SingleDocumentStats ==
    AfterSingleDocument =>
        LET doc == PrevCall.document[1]
            before == PrevCall.stats_before
        IN  /\ ~PrevCall.raised
            /\ last.ret.total_chunks
                   = before.total_chunks + Len(default_chunks[doc.text])
            /\ last.ret.total_documents
                   = before.total_documents
                       + (IF doc.filename \in PrevCall.files_before THEN 0 ELSE 1)

\* What retrieve_relevant_chunks returns without having searched.
NothingRetrieved ==
    [raised |-> FALSE, ret |-> <<>>, hits |-> <<>>, looked_up |-> <<>>,
     embed_calls |-> 0, search_calls |-> 0]

\* C12: clear_index leaves the vector index and the chunk store empty, and when
\* it returns, both files hold the empty state; a get_stats that follows
\* returns total_chunks = 0 and total_documents = 0, and a retrieval that
\* follows returns the empty list, whatever its arguments.
C12_ClearEmptiesAndPersists ==
    /\ last.op = "clear_index" =>
           /\ index = <<>>
           /\ chunks = <<>>
           /\ ~last.raised => (disk_index = File(<<>>) /\ disk_chunks = File(<<>>))
           /\ \A query \in Queries, top_k \in 1..MaxTopK, similarity_threshold \in Thresholds :
                  retrieve_relevant_chunks(query, top_k, similarity_threshold)
                      = {NothingRetrieved}
    /\ (last.op = "get_stats" /\ PrevCall.op = "clear_index") =>
           last.ret = [total_chunks |-> 0, total_documents |-> 0]

\* get_stats has answered after a clear_index that found two chunks of two
\* documents in the store and returned.
C12_Witness ==
    /\ last.op = "get_stats"
    /\ PrevCall.op = "clear_index"
    /\ ~PrevCall.raised
    /\ PrevCall.stats_before = [total_chunks |-> 2, total_documents |-> 2]
    /\ last.ret = [total_chunks |-> 0, total_documents |-> 0]
    /\ disk_index = File(<<>>)
    /\ disk_chunks = File(<<>>)

\* C13: an add_documents call that gets through all its documents calls
\* save_index exactly once, after the last document was appended, and when it
\* returns the two files hold the state with every document of the batch; a
\* call that fails on some document does not call save_index at all.
C13_OneSaveAtTheEnd ==
    last.op = "add_documents" =>
        IF last.docs_done < last.args[1]
        THEN last.raised /\ last.saves = 0
        ELSE /\ last.saves = 1
             /\ last.saved_after = last.args[1]
             /\ ~last.raised => (disk_index = File(index) /\ disk_chunks = File(chunks))

\* A batch of two documents has been ingested into a store that held none and
\* the call has returned.
C13_Witness ==
    /\ last.op = "add_documents"
    /\ ~last.raised
    /\ last.args = <<2>>
    /\ last.store_before = 0
    /\ last.saves = 1
    /\ last.saved_after = 2
    /\ Len(disk_chunks.data) = 2
    /\ Len(disk_index.data) = 2

\* C14: in every state, also after a write of save_index has failed, the index
\* file and the chunks file hold the same number of entries, and an engine
\* that has just loaded them has as many vectors as chunk records.
C14_FilesAgree ==
    /\ (disk_index.exists /\ disk_chunks.exists)
           => Len(disk_index.data) = Len(disk_chunks.data)
    /\ last.op = "__init__" => Len(index) = Len(chunks)

\* The handlers that have begun and not ended.
Begun == {s \in Slots : http.handler[s].kind # "none"}
Mutations == {s \in Begun : http.handler[s].kind \in {"upload", "clear"}}

\* C15: whatever requests are in flight, a handler that changes the engine
\* (upload or clear) never overlaps another handler, be it a mutation or a
\* query; no query runs its search between the index append and the chunk
\* append of an ingestion, and every search finds the index as large as the
\* chunk store.
C15_MutationsExclusive ==
    /\ \A s \in Mutations : Begun = {s}
    /\ \A s \in Begun :
           http.handler[s].seen # <<>> =>
               /\ ~http.handler[s].seen[1].mid_ingestion
               /\ http.handler[s].seen[1].ntotal = http.handler[s].seen[1].nchunks

\* An ingestion stands between its index append and its chunk append, with the
\* index ahead of the chunk store, while two more requests are in flight.
C15_Witness ==
    /\ \E s \in Slots : http.handler[s].kind = "upload" /\ http.handler[s].pc = "append"
    /\ Len(index) > Len(chunks)
    /\ Len(chunks) > 0
    /\ http.waiting = 2
====
